---- MODULE Spec2Model ----
(***************************************************************************)
(* A model of the lava-flow vault importer: the deterministic identity     *)
(* generator (src/src/deterministic-uuid.ts), the folder helpers           *)
(* (src/src/util.ts) and the import pipeline of class LavaFlow             *)
(* (src/unnamed/part_000).                                                 *)
(*                                                                         *)
(* Strings that are hashed or compared are sequences of UTF-16 code units. *)
(* 32-bit integers are kept as two 16-bit halves [hi, lo], because the     *)
(* magnitude 2^31 that Math.abs yields for the minimum int32 has to be     *)
(* representable.                                                          *)
(***************************************************************************)
EXTENDS Integers, Sequences, FiniteSets, TLC

VARIABLES
  uq,        \* the identity generator: position, inputs, hashes, result
  tq,        \* the tree builder: position, file list, resulting tree
  cfg,       \* one import's inputs: the vault file list and the settings
  store,     \* the host: folders, journal entries with pages, asset storage
  run,       \* how many times importVault was called
  tasks,     \* the steps importVault still has to take (empty: not running)
  jp,        \* FileInfo.journalPage of each vault file
  up,        \* OtherFileInfo.uploadPath of each vault file
  existing,  \* existingImagePaths: the file names the pre-scan found
  pages,     \* allJournals: the pages handed to link resolution
  inflight,  \* requests that were issued and have not settled
  notices,   \* the notices of the current run and its rejected calls
  stats,     \* totalImages and skippedImages
  failures,  \* how many collaborator calls were made to reject so far
  hist       \* what earlier runs left behind

vars == <<uq, tq, cfg, store, run, tasks, jp, up, existing, pages,
          inflight, notices, stats, failures, hist>>

importVars == <<cfg, store, run, tasks, jp, up, existing, pages, inflight,
                notices, stats, failures, hist>>

----------------------------------------------------------------------------
(* Bounds of the model *)

\* longest path of the exhaustively enumerated identity inputs
MaxPathLen == 3

----------------------------------------------------------------------------
(* Character data *)

NsFolder == <<102, 111, 108, 100, 101, 114>>
NsJournal == <<106, 111, 117, 114, 110, 97, 108>>
NsPage == <<112, 97, 103, 101>>
Namespaces == {NsFolder, NsJournal, NsPage}
Salt1 == <<115, 97, 108, 116, 49>>
Salt2 == <<115, 97, 108, 116, 50>>
ChColon == <<58>>
ChSlash == <<47>>
ChHash == <<35>>

\* code units of the enumerated paths: a, b, '/', '.'
PathChars == {97, 98, 47, 46}

\* paths whose hashes sit at the edges of the 32-bit range:
\*   page:ifbasoc     hash1 = 2^31 (the hash state is the minimum int32)
\*   journal:bnoolpn  hash2 = 0, hash3 = 1 (renderings shorter than the pad)
\*   journal:ivpnjut  hash2 = 2^31, hash3 = 2^31 - 1
\*   journal:fiksswu  hash1 = 3
EdgePaths ==
  { <<105, 102, 98, 97, 115, 111, 99>>,
    <<98, 110, 111, 111, 108, 112, 110>>,
    <<105, 118, 112, 110, 106, 117, 116>>,
    <<102, 105, 107, 115, 115, 119, 117>> }

RECURSIVE SeqsUpTo(_, _)
SeqsUpTo(S, n) ==
  IF n = 0 THEN { <<>> }
  ELSE LET shorter == SeqsUpTo(S, n - 1)
       IN shorter \cup { Append(s, c) : s \in shorter, c \in S }

UuidPaths == SeqsUpTo(PathChars, MaxPathLen) \cup EdgePaths

----------------------------------------------------------------------------
(* 32-bit arithmetic on halves *)

Half == 65536

U32(hi, lo) == [hi |-> hi, lo |-> lo]
U32Zero == U32(0, 0)

\* x << 5, truncated to 32 bits
Shl5(x) ==
  LET l == x.lo * 32
  IN U32((x.hi * 32 + (l \div Half)) % Half, l % Half)

\* (x - y) mod 2^32
SubU32(x, y) ==
  LET l == x.lo - y.lo
      borrow == IF l < 0 THEN 1 ELSE 0
  IN U32((x.hi - y.hi - borrow) % Half, l % Half)

\* (x + c) mod 2^32 for a code unit c
AddCharU32(x, c) ==
  LET l == x.lo + c
  IN U32((x.hi + (l \div Half)) % Half, l % Half)

\* the int32 with these bits is negative
IsNegative32(x) == x.hi >= 32768

\* the magnitude of the int32 with these bits (2^31 for the minimum)
Magnitude32(x) ==
  IF IsNegative32(x) THEN SubU32(U32Zero, x) ELSE x

----------------------------------------------------------------------------
(* deterministic-uuid.ts *)

\* a JavaScript number that is an integer of magnitude at most 2^32 - 1
Num(neg, mag) == [neg |-> neg, mag |-> mag]

\* one round of the loop of hashString:
\*   hash = ((hash << 5) - hash) + char;  hash = hash & hash
HashStep(hash, c) == AddCharU32(SubU32(Shl5(hash), hash), c)

\* the loop of hashString: the int32 state after the code units of str.
\* (hash.hi is never negative; reading it makes TLC evaluate the state at
\* every round instead of building one nested expression.)
RECURSIVE HashFold(_, _)
HashFold(hash, str) ==
  IF str = <<>> \/ hash.hi < 0 THEN hash
  ELSE HashFold(HashStep(hash, Head(str)), Tail(str))

\* a variant of hashString that returns the signed state without Math.abs
HashStringSigned(str) ==
  LET h == HashFold(U32Zero, str)
  IN Num(IsNegative32(h), Magnitude32(h))

hashString(str) ==
  Num(FALSE, Magnitude32(HashFold(U32Zero, str)))

DigitChar(d) == IF d < 10 THEN 48 + d ELSE 87 + d

\* the base-36 digits of a magnitude, most significant first ("" for 0)
RECURSIVE Digits36(_)
Digits36(m) ==
  IF m.hi = 0 /\ m.lo = 0 THEN <<>>
  ELSE LET r1 == m.hi % 36
           low == r1 * Half + m.lo
       IN Append(Digits36(U32(m.hi \div 36, low \div 36)), DigitChar(low % 36))

\* Number.prototype.toString(36)
ToString36(num) ==
  LET ds == IF Digits36(num.mag) = <<>> THEN <<48>> ELSE Digits36(num.mag)
  IN IF num.neg THEN <<45>> \o ds ELSE ds

RECURSIVE Zeros(_)
Zeros(n) == IF n <= 0 THEN <<>> ELSE <<48>> \o Zeros(n - 1)

\* String.prototype.padStart(length, '0'): never shortens
PadStart(s, length) == Zeros(length - Len(s)) \o s

toBase36(num, length) == PadStart(ToString36(num), length)

Substring0(s, n) == SubSeq(s, 1, IF Len(s) < n THEN Len(s) ELSE n)

\* a variant of generateDeterministicUUID that leaves the namespace out
UuidNoNamespace(path, namespace) ==
  LET input == ChColon \o path
  IN Substring0(toBase36(hashString(input), 6)
                \o toBase36(hashString(input \o Salt1), 5)
                \o toBase36(hashString(input \o Salt2), 5), 16)

generateDeterministicUUID(path, namespace) ==
  LET input == namespace \o ChColon \o path
      part1 == toBase36(hashString(input), 6)
      part2 == toBase36(hashString(input \o Salt1), 5)
      part3 == toBase36(hashString(input \o Salt2), 5)
  IN Substring0(part1 \o part2 \o part3, 16)

RECURSIVE JoinSlash(_)
JoinSlash(parts) ==
  IF parts = <<>> THEN <<>>
  ELSE IF Len(parts) = 1 THEN parts[1]
  ELSE parts[1] \o ChSlash \o JoinSlash(Tail(parts))

generateFolderUUID(folderPath) ==
  generateDeterministicUUID(JoinSlash(folderPath), NsFolder)

generateJournalUUID(filePath) ==
  generateDeterministicUUID(filePath, NsJournal)

generatePageUUID(filePath, pageName) ==
  generateDeterministicUUID(
    IF pageName # <<>> THEN filePath \o ChHash \o pageName ELSE filePath,
    NsPage)

----------------------------------------------------------------------------
(* Names and text *)

Null == <<>>

NameV == <<118>>
NameA == <<97>>
NameB == <<98>>
NameN == <<110>>
NameM == <<109>>
NameK == <<107>>
NameL == <<108>>
NameI == <<105>>
NameR == <<114>>
NameUpperM == <<77>>
ExtMd == <<109, 100>>
ExtPng == <<112, 110, 103>>
ExtCanvas == <<99, 97, 110, 118, 97, 115>>
ChDot == <<46>>
NameIndex == <<73, 110, 100, 101, 120>>
NameUncategorized ==
  <<85, 110, 99, 97, 116, 101, 114, 103, 111, 114, 105, 122, 101, 100>>
TextSee == <<115, 101, 101>>
Size300x200 == <<51, 48, 48, 120, 50, 48, 48>>
Size300 == <<51, 48, 48>>
MediaFolder == <<105, 109, 103>>

LowerChar(c) == IF c \in 65..90 THEN c + 32 ELSE c
Lower(s) == [i \in 1..Len(s) |-> LowerChar(s[i])]

\* s sorts before t by code units (Array.prototype.sort without comparator)
RECURSIVE LexLess(_, _)
LexLess(s, t) ==
  IF t = <<>> THEN FALSE
  ELSE IF s = <<>> THEN TRUE
  ELSE IF s[1] # t[1] THEN s[1] < t[1]
  ELSE LexLess(Tail(s), Tail(t))

\* String.prototype.localeCompare(a, b) < 0 for the letters and digits used
\* here: letters compare without case first, lower case before upper case
\* on a tie
LocaleLess(s, t) ==
  IF Lower(s) # Lower(t) THEN LexLess(Lower(s), Lower(t)) ELSE LexLess(t, s)

\* a sequence of strings sorted by key order: "lex" is Array.prototype.sort
\* without a comparator, "locale" is localeCompare (insertion sort, stable)
KeyLess(order, s, t) == IF order = "lex" THEN LexLess(s, t) ELSE LocaleLess(s, t)

RECURSIVE InsertSorted(_, _, _, _)
InsertSorted(sorted, x, key, order) ==
  IF sorted = <<>> THEN <<x>>
  ELSE IF KeyLess(order, key[x], key[sorted[1]]) THEN <<x>> \o sorted
  ELSE <<sorted[1]>> \o InsertSorted(Tail(sorted), x, key, order)

\* the indices seq sorted by key[index]
RECURSIVE SortBy(_, _, _)
SortBy(seq, key, order) ==
  IF seq = <<>> THEN <<>>
  ELSE InsertSorted(SortBy(SubSeq(seq, 1, Len(seq) - 1), key, order),
                    seq[Len(seq)], key, order)

\* the elements of seq without repetition, in first-occurrence order
RECURSIVE Distinct(_)
Distinct(seq) ==
  IF seq = <<>> THEN <<>>
  ELSE LET front == Distinct(SubSeq(seq, 1, Len(seq) - 1))
           x == seq[Len(seq)]
       IN IF \E i \in 1..Len(front) : front[i] = x THEN front
          ELSE Append(front, x)

RECURSIVE Concat(_)
Concat(seqs) ==
  IF seqs = <<>> THEN <<>> ELSE Head(seqs) \o Concat(Tail(seqs))

\* the index of the first element of seq satisfying test, 0 if none
FirstIndex(seq, test(_)) ==
  IF \E i \in 1..Len(seq) : test(seq[i])
  THEN CHOOSE i \in 1..Len(seq) :
         test(seq[i]) /\ \A j \in 1..(i - 1) : ~test(seq[j])
  ELSE 0

IsDigit(c) == c \in 48..57
AllDigits(s) == s # <<>> /\ \A i \in 1..Len(s) : IsDigit(s[i])

----------------------------------------------------------------------------
(* Page bodies.  A body is a sequence of tokens; a token is a maximal piece *)
(* of text that link resolution treats as a unit:                           *)
(*   text   plain text x                                                    *)
(*   ref    a wiki link  [[x]]  or  [[x|alias]]                             *)
(*   embed  an embed     ![[x]] or  ![[x|alias]]                            *)
(*   link   a resolved document link  @UUID[x]{alias}                       *)
(*   asset  a resolved asset link  ![alias](x)  or  ![alias](x =dim)        *)

Tok(t, x, alias, dim) == [t |-> t, x |-> x, alias |-> alias, dim |-> dim]

Text(x) == Tok("text", x, Null, Null)
Ref(x, alias) == Tok("ref", x, alias, Null)
Embed(x, alias) == Tok("embed", x, alias, Null)

TextCRLF == Text(<<13, 10>>)
TextReferences == Text(<<35, 82, 101, 102, 101, 114, 101, 110, 99, 101, 115>>)
TextDash == Text(<<45, 32>>)

\* String.prototype.includes for a body and one token
Includes(body, tok) == \E i \in 1..Len(body) : body[i] = tok

\* String.prototype.replace(literal, replacement): the first occurrence only
ReplaceFirst(body, tok, new) ==
  LET k == FirstIndex(body, LAMBDA b : b = tok)
  IN IF k = 0 THEN body ELSE [body EXCEPT ![k] = new]

----------------------------------------------------------------------------
(* Vault files (FileInfo) *)

\* a file of the vault: its directories (the vault's own directory first),
\* base name, extension, frontmatter lines and body
File(dirs, base, ext, fm, body) ==
  [dirs |-> dirs, base |-> base, ext |-> ext, fm |-> fm, body |-> body]

fileName(f) == f.base \o ChDot \o f.ext
webkitRelativePath(f) == JoinSlash(Append(f.dirs, fileName(f)))
IsMarkdown(f) == f.ext = ExtMd
isCanvas(f) == f.ext = ExtCanvas
isHidden(f) ==
  \E i \in 1..Len(f.dirs) + 1 :
    LET seg == Append(f.dirs, fileName(f))[i] IN seg # <<>> /\ seg[1] = 46

\* the path of a file with the vault's own directory in front
filePathWithRoot(f) == webkitRelativePath(f)

\* the path of a file below the vault's own directory
filePathOf(f) ==
  IF Len(f.dirs) + 1 > 1 THEN JoinSlash(Append(Tail(f.dirs), fileName(f)))
  ELSE webkitRelativePath(f)

\* parseFrontmatterAndBody: the visibility the frontmatter lines give
isPublicOf(f) == "public: true" \in f.fm \/ "visibility: public" \in f.fm

----------------------------------------------------------------------------
(* FolderInfo and createFolderStructure *)

Node(name, childFolders, files) ==
  [name |-> name, childFolders |-> childFolders, files |-> files]

EmptyNode == Node(Null, <<>>, <<>>)

\* a walk that makes a new child folder for every directory of every file
RECURSIVE InsertFileNoFind(_, _, _)
InsertFileNoFind(node, directories, i) ==
  IF directories = <<>> THEN [node EXCEPT !.files = Append(@, i)]
  ELSE [node EXCEPT !.childFolders =
          Append(@, InsertFileNoFind(Node(directories[1], <<>>, <<>>),
                                     Tail(directories), i))]

\* the walk of one file down its directories: find or create each child
\* folder, then push the file on the innermost one
RECURSIVE InsertFile(_, _, _)
InsertFile(node, directories, i) ==
  IF directories = <<>> THEN [node EXCEPT !.files = Append(@, i)]
  ELSE LET k == FirstIndex(node.childFolders,
                           LAMBDA f : f.name = directories[1])
       IN IF k = 0
          THEN [node EXCEPT !.childFolders =
                  Append(@, InsertFile(Node(directories[1], <<>>, <<>>),
                                       Tail(directories), i))]
          ELSE [node EXCEPT !.childFolders[k] =
                  InsertFile(@, Tail(directories), i)]

RECURSIVE BuildFrom(_, _, _)
BuildFrom(rootFolder, fileList, i) ==
  IF i > Len(fileList) THEN rootFolder
  ELSE IF isHidden(fileList[i]) \/ isCanvas(fileList[i])
  THEN BuildFrom(rootFolder, fileList, i + 1)
  ELSE LET directories == fileList[i].dirs
           directoriesWithoutRoot ==
             IF Len(directories) > 1 THEN Tail(directories) ELSE <<>>
       IN BuildFrom(InsertFile(rootFolder, directoriesWithoutRoot, i),
                    fileList, i + 1)

createFolderStructure(fileList) == BuildFrom(EmptyNode, fileList, 1)

RECURSIVE getFilesRecursive(_)
getFilesRecursive(node) ==
  node.files
  \o Concat([k \in 1..Len(node.childFolders) |->
               getFilesRecursive(node.childFolders[k])])
----------------------------------------------------------------------------
(* The host: document store, container store and asset storage.            *)
(* Folders and journal entries are kept in creation order, which is the    *)
(* order find() and children scan them in.                                 *)

EmptyStore ==
  [folders |-> <<>>, journals |-> <<>>, rnd |-> 0, dir |-> FALSE,
   uploads |-> <<>>, saved |-> FALSE]

\* an identifier the store makes up when the caller supplies none
RandomId(n) == <<n>>

FolderIndex(st, id) == FirstIndex(st.folders, LAMBDA f : f.id = id)
JournalIndex(st, id) == FirstIndex(st.journals, LAMBDA j : j.id = id)

\* documentExists(collection, id)
FolderExists(st, id) == FolderIndex(st, id) # 0
JournalExists(st, id) == JournalIndex(st, id) # 0

JournalOf(st, id) == st.journals[JournalIndex(st, id)]

\* journalEntry.pages.get(id) and pages.find(p => p.name === name): the
\* index of the page in the journal entry, 0 if none
PageIndexById(journal, pid) == FirstIndex(journal.pages, LAMBDA p : p.id = pid)
PageIndexByName(journal, name) ==
  FirstIndex(journal.pages, LAMBDA p : p.name = name)

\* a JournalEntryPage: the entry that holds it and its own identifier
PageRef(j, p) == [j |-> j, p |-> p]
NoPage == PageRef(Null, Null)

PageOf(st, ref) ==
  LET journal == JournalOf(st, ref.j)
  IN journal.pages[PageIndexById(journal, ref.p)]

BodyOf(st, ref) == PageOf(st, ref).body

\* the store with the page's fields set the way page.update(...) sets them
WithPage(st, ref, body, format) ==
  LET jx == JournalIndex(st, ref.j)
      px == PageIndexById(st.journals[jx], ref.p)
  IN [st EXCEPT !.journals[jx].pages[px].body = body,
                !.journals[jx].pages[px].format = format]

WithPageSheet(st, ref, sheet) ==
  LET jx == JournalIndex(st, ref.j)
      px == PageIndexById(st.journals[jx], ref.p)
  IN [st EXCEPT !.journals[jx].pages[px].sheet = sheet]

----------------------------------------------------------------------------
(* Awaited calls.  A run carries the number of awaited collaborator calls  *)
(* that still resolve (fuel); the call made when it is 0 rejects, and the   *)
(* rejection propagates: every later call of the step is skipped.          *)

NoFail == 0 - 1

\* one awaited collaborator call: it resolves, or it rejects
Await(c) ==
  IF c.failed THEN c
  ELSE IF c.fuel = 0 THEN [c EXCEPT !.failed = TRUE, !.hit = TRUE]
  ELSE IF c.fuel = NoFail THEN c
  ELSE [c EXCEPT !.fuel = @ - 1]

\* a call inside try/catch: c.ret tells whether it resolved, and a rejection
\* does not propagate
Try(c) ==
  IF c.failed THEN c
  ELSE IF c.fuel = 0 THEN [c EXCEPT !.fuel = NoFail, !.hit = TRUE, !.ret = FALSE]
  ELSE IF c.fuel = NoFail THEN [c EXCEPT !.ret = TRUE]
  ELSE [c EXCEPT !.fuel = @ - 1, !.ret = TRUE]

\* throw new Error(...)
Throw(c) == [c EXCEPT !.failed = TRUE]

\* an awaited call whose effect on the store is st when it resolves
AwaitStore(c, st) ==
  LET a == Await(c) IN IF a.failed THEN a ELSE [a EXCEPT !.store = st]

Return(c, value) == IF c.failed THEN c ELSE [c EXCEPT !.ret = value]

----------------------------------------------------------------------------
(* util.ts *)

getFolder(st, folderName, parentFolderID) ==
  LET k == IF parentFolderID # Null
           THEN FirstIndex(st.folders, LAMBDA f :
                  f.parent = parentFolderID /\ f.name = folderName)
           ELSE FirstIndex(st.folders, LAMBDA f :
                  f.parent = Null /\ f.name = folderName)
  IN IF k = 0 THEN Null ELSE st.folders[k].id

\* Folder.create(folderData, { keepId: true })
insertFolder(c, id, folderName, parentFolderID) ==
  AwaitStore(c, [c.store EXCEPT !.folders = Append(@,
    [id |-> id, name |-> folderName, parent |-> parentFolderID,
     flag |-> FALSE])])

\* folder.setFlag(scope, FOLDER, true)
flagFolder(c, id) ==
  IF c.failed THEN c
  ELSE AwaitStore(c, [c.store EXCEPT
         !.folders[FolderIndex(c.store, id)].flag = TRUE])

createFolderWithId(c, deterministicId, folderName, parentFolderID) ==
  IF FolderExists(c.store, deterministicId) THEN Return(c, deterministicId)
  ELSE Return(flagFolder(insertFolder(c, deterministicId, folderName,
                                      parentFolderID), deterministicId),
              deterministicId)

createFolder(c, folderName, parentFolderID, folderPath) ==
  createFolderWithId(c, generateFolderUUID(Append(folderPath, folderName)),
                     folderName, parentFolderID)

createOrGetFolder(c, folderName, parentFolderID, folderPath) ==
  IF c.failed THEN c
  ELSE IF folderName = Null THEN Return(c, Null)
  ELSE LET found == getFolder(c.store, folderName, parentFolderID)
       IN IF found # Null THEN Return(c, found)
          ELSE createFolder(c, folderName, parentFolderID, folderPath)

----------------------------------------------------------------------------
(* LavaFlow: documents *)

\* JournalEntry.create(entryData, { keepId: true })
insertJournal(c, id, random, journalName, parentFolder, playerObserve) ==
  AwaitStore(c, [c.store EXCEPT
    !.journals = Append(@,
      [id |-> id, name |-> journalName, folder |-> parentFolder,
       ownership |-> IF playerObserve THEN "observer" ELSE "none",
       flag |-> FALSE, pages |-> <<>>]),
    !.rnd = IF random THEN @ + 1 ELSE @])

\* entry.setFlag(scope, JOURNAL, true)
flagJournal(c, id) ==
  IF c.failed THEN c
  ELSE AwaitStore(c, [c.store EXCEPT
         !.journals[JournalIndex(c.store, id)].flag = TRUE])

\* createJournal once the identifier is settled: the deterministic one when
\* a file path was given, else one the store makes up
createJournalWithId(c, id, random, journalName, parentFolder, playerObserve) ==
  IF ~random /\ JournalExists(c.store, id) THEN Return(c, id)
  ELSE Return(flagJournal(insertJournal(c, id, random, journalName,
                                        parentFolder, playerObserve), id), id)

createJournal(c, journalName, parentFolder, playerObserve, filePath) ==
  IF c.failed THEN c
  ELSE createJournalWithId(c,
         IF filePath # Null THEN generateJournalUUID(filePath)
         ELSE RandomId(c.store.rnd),
         filePath = Null, journalName, parentFolder, playerObserve)

\* JournalEntryPage.create(..., { parent: journalEntry, keepId: true })
insertPage(c, id, random, pageName, content, journalEntry) ==
  AwaitStore(c, [c.store EXCEPT
    !.journals[JournalIndex(c.store, journalEntry)].pages = Append(@,
      [id |-> id, name |-> pageName, body |-> content,
       format |-> "markdown", sheet |-> "default"]),
    !.rnd = IF random THEN @ + 1 ELSE @])

\* page.setFlag("core", "sheetClass", "core.MarkdownJournalPageSheet")
flagPage(c, journalEntry, id) ==
  IF c.failed THEN c
  ELSE AwaitStore(c, WithPageSheet(c.store, PageRef(journalEntry, id),
                                   "markdown"))

createJournalPageWithId(c, id, random, pageName, content, journalEntry) ==
  IF ~random /\ PageIndexById(JournalOf(c.store, journalEntry), id) # 0
  THEN Return(c, id)
  ELSE Return(flagPage(insertPage(c, id, random, pageName, content,
                                  journalEntry), journalEntry, id), id)

\* returns the identifier of the page in c.ret
createJournalPage(c, pageName, content, journalEntry, filePath) ==
  IF c.failed THEN c
  ELSE createJournalPageWithId(c,
         IF filePath # Null THEN generatePageUUID(filePath, pageName)
         ELSE RandomId(c.store.rnd),
         filePath = Null, pageName, content, journalEntry)

\* page.update({ text: { markdown: content } })
updateJournalPage(c, page, content) ==
  IF c.failed \/ page = NoPage THEN c
  ELSE AwaitStore(c, WithPage(c.store, page, content,
                              PageOf(c.store, page).format))

\* finalJournal.update({ ownership: { default: level } })
updateOwnership(c, journalEntry, level) ==
  IF c.failed THEN c
  ELSE AwaitStore(c, [c.store EXCEPT
         !.journals[JournalIndex(c.store, journalEntry)].ownership = level])
----------------------------------------------------------------------------
(* Link patterns and link text of a vault item (FileInfo.getLinkRegex,     *)
(* FileInfo.getLink)                                                       *)

\* the patterns of an item: its base name without and with extension, in a
\* wiki link for a note and in an embed for an asset; case is ignored
getLinkRegex(f) ==
  LET t == IF IsMarkdown(f) THEN "ref" ELSE "embed"
  IN << [t |-> t, target |-> Lower(f.base)],
        [t |-> t, target |-> Lower(fileName(f))] >>

PatternMatches(pattern, tok) ==
  tok.t = pattern.t /\ Lower(tok.x) = pattern.target

\* a search that stops at the first match
matchFirst(body, pattern) ==
  LET k == FirstIndex(body, LAMBDA tok : PatternMatches(pattern, tok))
  IN IF k = 0 THEN <<>> ELSE <<body[k]>>

\* body.matchAll(pattern): the matching tokens of the body, in order
matchAll(body, pattern) ==
  SelectSeq(body, LAMBDA tok : PatternMatches(pattern, tok))

\* the uuid a page is linked by
PageUuid(ref) == ref.j \o ChDot \o ref.p

NoLink == Tok("none", Null, Null, Null)

\* the link of an item: for a note the link of its page, labelled with the
\* alias or else with the page's name; for an asset a link to its upload
\* path; none for an item that has no page and no upload path
getLink(st, f, page, uploadPath, alias) ==
  IF IsMarkdown(f)
  THEN IF page = NoPage THEN NoLink
       ELSE Tok("link", PageUuid(page),
                IF alias = Null THEN PageOf(st, page).name ELSE alias, Null)
  ELSE IF uploadPath = Null THEN NoLink
       ELSE Tok("asset", uploadPath, alias, Null)

\* the text after '|' is a size: digits, or digits 'x' digits
SizeSplit(alias) ==
  LET low == Lower(alias)
      k == FirstIndex(low, LAMBDA ch : ch = 120)
  IN IF k = 0 THEN <<low>>
     ELSE <<SubSeq(low, 1, k - 1), SubSeq(low, k + 1, Len(low))>>

IsSize(alias) ==
  LET parts == SizeSplit(alias)
  IN \A i \in 1..Len(parts) : AllDigits(parts[i])

\* the dimension directive of a size suffix: the height is '*' when absent
Dimensions(alias) ==
  LET parts == SizeSplit(alias)
  IN IF Len(parts) = 1 THEN parts[1] \o <<120, 42>>
     ELSE parts[1] \o <<120>> \o parts[2]
----------------------------------------------------------------------------
(* The running import.  A step of importVault works on the record of       *)
(* everything a run can change, and returns it changed.                    *)

Settings == cfg.s
Vault == cfg.vault

Machine ==
  [store |-> store, tasks |-> tasks, jp |-> jp, up |-> up,
   existing |-> existing, pages |-> pages, inflight |-> inflight,
   notices |-> notices, stats |-> stats,
   fuel |-> NoFail, failed |-> FALSE, hit |-> FALSE, ret |-> Null]

\* a step still to be taken: its kind, and for the steps of importFolder
\* the folder or the file with the parent container, the combining journal
\* entry and the path so far
Task(k, node, file, pf, pj, cur) ==
  [k |-> k, node |-> node, file |-> file, pf |-> pf, pj |-> pj, cur |-> cur]

Stage(k, pf) == Task(k, EmptyNode, 0, pf, Null, <<>>)

HasMarkdown(fileIndices) ==
  \E k \in 1..Len(fileIndices) : IsMarkdown(Vault[fileIndices[k]])

MediaPath(name) == MediaFolder \o ChSlash \o name

----------------------------------------------------------------------------
(* importFolder: the part before the loops, which then queues the folder's *)
(* own files and, after them, its child folders                            *)

combineFilesOf(folder) ==
  /\ Settings.combineNotes
  /\ HasMarkdown(folder.files)
  /\ (~Settings.combineNotesNoSubfolders \/ Len(folder.childFolders) < 1)

oneJournalPerFileOf(folder) ==
  /\ ~combineFilesOf(folder)
  /\ folder.name # Null
  /\ HasMarkdown(getFilesRecursive(folder))

needsContainer(folder) ==
  \/ oneJournalPerFileOf(folder)
  \/ /\ combineFilesOf(folder)
     /\ \E k \in 1..Len(folder.childFolders) :
          HasMarkdown(getFilesRecursive(folder.childFolders[k]))

\* the combining journal entry of the folder, if it combines
journalFor(c, t) ==
  IF combineFilesOf(t.node)
  THEN createJournal(c, t.node.name, t.pf, Settings.playerObserve,
                     IF t.node.name # Null
                     THEN JoinSlash(Append(t.cur, t.node.name))
                     ELSE JoinSlash(t.cur))
  ELSE Return(c, Null)

\* the container the folder's documents go to; c.ret is parentJournal
containerFor(c, t) ==
  IF c.failed THEN c
  ELSE IF needsContainer(t.node)
  THEN createOrGetFolder(c, t.node.name, t.pf, t.cur)
  ELSE Return(c, t.pf)

\* the two loops the other way round: child folders first, then the files
queueFolderChildrenFirst(c, t, parentJournal, rest) ==
  LET parentFolder == c.ret
      childPath == IF t.node.name # Null THEN Append(t.cur, t.node.name)
                   ELSE t.cur
      fileTasks == [k \in 1..Len(t.node.files) |->
                      Task("file", EmptyNode, t.node.files[k], parentFolder,
                           parentJournal, <<>>)]
      folderTasks == [k \in 1..Len(t.node.childFolders) |->
                        Task("folder", t.node.childFolders[k], 0,
                             parentFolder, Null, childPath)]
  IN IF c.failed THEN c
     ELSE [c EXCEPT !.tasks = folderTasks \o fileTasks \o rest]

\* the two loops: the folder's files, then its child folders
queueFolder(c, t, parentJournal, rest) ==
  LET parentFolder == c.ret
      childPath == IF t.node.name # Null THEN Append(t.cur, t.node.name)
                   ELSE t.cur
      fileTasks == [k \in 1..Len(t.node.files) |->
                      Task("file", EmptyNode, t.node.files[k], parentFolder,
                           parentJournal, <<>>)]
      folderTasks == [k \in 1..Len(t.node.childFolders) |->
                        Task("folder", t.node.childFolders[k], 0,
                             parentFolder, Null, childPath)]
  IN IF c.failed THEN c
     ELSE [c EXCEPT !.tasks = fileTasks \o folderTasks \o rest]

\* c.ret is parentJournal on the way into containerFor and parentFolder on
\* the way out
withJournal(c, t, rest) ==
  queueFolder(containerFor(c, t), t, c.ret, rest)

importFolder(c, t) == withJournal(journalFor(c, t), t, Tail(c.tasks))

----------------------------------------------------------------------------
(* importFile *)

\* lines 255-272: the journal entry of the note; c.ret is finalJournal
findOrCreateJournal(c, i, parentFolder, parentJournal) ==
  LET journalName == IF parentJournal # Null
                     THEN JournalOf(c.store, parentJournal).name
                     ELSE Vault[i].base
      deterministicId == generateJournalUUID(filePathOf(Vault[i]))
      byName == FirstIndex(c.store.journals, LAMBDA j :
                  j.name = journalName /\ j.folder = parentFolder)
  IN IF parentJournal # Null THEN Return(c, parentJournal)
     ELSE IF JournalExists(c.store, deterministicId)
     THEN Return(c, deterministicId)
     ELSE IF byName # 0 THEN Return(c, c.store.journals[byName].id)
     ELSE createJournal(c, journalName, parentFolder, Settings.playerObserve,
                        filePathOf(Vault[i]))

\* lines 274-281: the page of the note; c.ret is finalJournal on the way in
\* and the page on the way out
writePage(c, i, finalJournal) ==
  LET pageName == Vault[i].base
      px == PageIndexByName(JournalOf(c.store, finalJournal), pageName)
      found == IF px = 0 THEN Null
               ELSE JournalOf(c.store, finalJournal).pages[px].id
  IN IF c.failed THEN c
     ELSE IF found # Null /\ Settings.overwrite
     THEN Return(updateJournalPage(c, PageRef(finalJournal, found),
                                   Vault[i].body), found)
     ELSE IF found = Null
             \/ (~Settings.overwrite /\ ~Settings.ignoreDuplicate)
     THEN createJournalPage(c, pageName, Vault[i].body, finalJournal,
                            filePathOf(Vault[i]))
     ELSE Return(c, found)

\* an ownership update for public notes only
setOwnershipOfPublic(c, i, finalJournal, parentJournal) ==
  IF c.failed THEN c
  ELSE IF parentJournal = Null /\ isPublicOf(Vault[i])
  THEN updateOwnership(c, finalJournal, "observer")
  ELSE c

\* lines 283-293: ownership from the frontmatter, for a note with an entry
\* of its own
setOwnership(c, i, finalJournal, parentJournal) ==
  IF c.failed THEN c
  ELSE IF parentJournal = Null
  THEN updateOwnership(c, finalJournal,
                       IF isPublicOf(Vault[i]) THEN "observer" ELSE "none")
  ELSE c

\* line 295: file.journalPage = journalPage
setJournalPage(c, i, journalPage) ==
  IF c.failed THEN c ELSE [c EXCEPT !.jp[i] = journalPage]

\* c.ret is the identifier of the page
afterWritePage(c, i, finalJournal, parentJournal) ==
  setJournalPage(setOwnership(c, i, finalJournal, parentJournal), i,
                 PageRef(finalJournal, c.ret))

withFinalJournal(c, i, parentJournal) ==
  IF c.failed THEN c
  ELSE afterWritePage(writePage(c, i, c.ret), i, c.ret, parentJournal)

importMarkdownFile(c, i, parentFolder, parentJournal) ==
  withFinalJournal(findOrCreateJournal(c, i, parentFolder, parentJournal),
                   i, parentJournal)

\* FilePicker.upload(source, mediaFolder, file)
upload(c, i) ==
  AwaitStore(c, [c.store EXCEPT !.uploads = Append(@, fileName(Vault[i]))])

setUploadPath(c, i, wasSkipped) ==
  IF c.failed THEN c
  ELSE Return([c EXCEPT !.up[i] = MediaPath(fileName(Vault[i]))], wasSkipped)

\* an import of an asset that never consults the pre-scanned names
importOtherFileAlwaysUploads(c, i) == setUploadPath(upload(c, i), i, FALSE)

\* returns in c.ret whether the asset was skipped
importOtherFile(c, i) ==
  IF Settings.skipDuplicateImages /\ fileName(Vault[i]) \in c.existing
  THEN setUploadPath(c, i, TRUE)
  ELSE setUploadPath(upload(c, i), i, FALSE)

countImage(c) ==
  IF c.failed THEN c
  ELSE [c EXCEPT !.stats.totalImages = @ + 1,
                 !.stats.skippedImages = IF c.ret = TRUE THEN @ + 1 ELSE @]

\* the step is over: the next one is the rest of the queue
popTask(c, rest) == IF c.failed THEN c ELSE [c EXCEPT !.tasks = rest]

importFile(c, t) ==
  popTask(IF IsMarkdown(Vault[t.file])
          THEN importMarkdownFile(c, t.file, t.pf, t.pj)
          ELSE IF ~Settings.importNonMarkdown THEN c
          ELSE countImage(importOtherFile(c, t.file)),
          Tail(c.tasks))
----------------------------------------------------------------------------
(* importVault up to the first importFolder call *)

\* FilePicker.browse lists the media folder: it rejects when the folder is
\* not there (local storage) or when the backend fails
browse(c) ==
  IF c.failed THEN c
  ELSE IF Settings.useS3 \/ c.store.dir THEN Try(c)
  ELSE Return(Try(c), FALSE)

\* FilePicker.createDirectory when the listing failed; c.ret is whether the
\* listing resolved
ensureDirectory(c) ==
  IF c.failed \/ c.ret THEN c
  ELSE AwaitStore(c, [c.store EXCEPT !.dir = TRUE])

\* a validation that takes the remote-storage settings as they are
validateUploadLocationUnchecked(c) ==
  IF c.failed \/ Settings.useS3 THEN c ELSE ensureDirectory(browse(c))

validateUploadLocation(c) ==
  IF c.failed THEN c
  ELSE IF Settings.useS3
  THEN IF Settings.s3Bucket = Null \/ Settings.s3Region = Null
       THEN Throw(c) ELSE c
  ELSE ensureDirectory(browse(c))

UploadedNames(st) == {st.uploads[k] : k \in 1..Len(st.uploads)}

\* the names the listing gave, none when it failed
setExisting(c) ==
  IF c.failed THEN c
  ELSE [c EXCEPT !.existing = IF c.ret THEN UploadedNames(c.store) ELSE {}]

getExistingImageFiles(c) == setExisting(browse(c))

saveSettings(c) == AwaitStore(c, [c.store EXCEPT !.saved = TRUE])

validated(c) ==
  IF Settings.importNonMarkdown THEN validateUploadLocation(c) ELSE c

prescanned(c) ==
  IF Settings.importNonMarkdown /\ Settings.skipDuplicateImages
  THEN getExistingImageFiles(c) ELSE c

\* c.ret is rootFoundryFolder
queueRoot(c) ==
  IF c.failed THEN c
  ELSE [c EXCEPT !.tasks =
          << Task("folder", createFolderStructure(Vault), 0, c.ret, Null,
                  <<>>),
             Stage("gather", c.ret) >>]

beginImport(c) ==
  queueRoot(createOrGetFolder(prescanned(validated(saveSettings(c))),
                              Settings.rootFolderName, Null, <<>>))

----------------------------------------------------------------------------
(* importVault after importFolder: the files and pages of the run, and     *)
(* the stages that follow                                                  *)

importedFiles == getFilesRecursive(createFolderStructure(Vault))

mdFiles == SelectSeq(importedFiles, LAMBDA i : IsMarkdown(Vault[i]))

allJournals(c) ==
  LET withPage == SelectSeq(importedFiles, LAMBDA i : c.jp[i] # NoPage)
  IN [k \in 1..Len(withPage) |-> c.jp[withPage[k]]]

gatherFiles(c, t) ==
  LET linkTasks == [k \in 1..Len(importedFiles) |->
                      Task("links", EmptyNode, importedFiles[k], t.pf, Null,
                           <<>>)]
      extras ==
        (IF Settings.createIndexFile THEN <<Stage("index", t.pf)>> ELSE <<>>)
        \o (IF Settings.createBacklinks THEN <<Stage("backlinks", t.pf)>>
            ELSE <<>>)
        \o (IF Settings.useTinyMCE
            THEN <<Stage("convert", t.pf), Stage("join", t.pf)>> ELSE <<>>)
        \o <<Stage("complete", t.pf)>>
  IN [c EXCEPT !.pages = allJournals(c), !.tasks = linkTasks \o extras]

----------------------------------------------------------------------------
(* updateLinks *)

\* the body of the innermost loop without the test for an item that has no
\* link
replaceMatchUnchecked(c, i, page, linkMatch) ==
  LET fileInfo == Vault[i]
      link == getLink(c.store, fileInfo, c.jp[i], c.up[i], linkMatch.alias)
  IN IF c.failed THEN c
     ELSE updateJournalPage(c, page,
            ReplaceFirst(BodyOf(c.store, page), linkMatch, link))

\* the body of the innermost loop for one match of one pattern in one page
replaceMatch(c, i, page, linkMatch) ==
  LET fileInfo == Vault[i]
      alias == linkMatch.alias
      plain == getLink(c.store, fileInfo, c.jp[i], c.up[i], alias)
      link == IF ~IsMarkdown(fileInfo) /\ alias # Null /\ IsSize(alias)
              THEN [plain EXCEPT !.dim = Dimensions(alias)] ELSE plain
      newContent == ReplaceFirst(BodyOf(c.store, page), linkMatch, link)
  IN IF c.failed THEN c
     ELSE IF plain = NoLink THEN c
     ELSE updateJournalPage(c, page, newContent)

RECURSIVE replaceMatches(_, _, _, _)
replaceMatches(c, i, page, linkMatches) ==
  IF linkMatches = <<>> \/ c.failed THEN c
  ELSE replaceMatches(replaceMatch(c, i, page, Head(linkMatches)), i, page,
                      Tail(linkMatches))

\* the loops over the pages (p) and the patterns (j); the matches are those
\* of the body as it is when the pattern's turn comes
RECURSIVE updateLinksFrom(_, _, _, _)
updateLinksFrom(c, i, p, j) ==
  LET linkPatterns == getLinkRegex(Vault[i])
      comparePage == c.pages[p]
      linkMatches == matchAll(BodyOf(c.store, comparePage), linkPatterns[j])
  IN IF c.failed \/ p > Len(c.pages) THEN c
     ELSE IF j > Len(linkPatterns) THEN updateLinksFrom(c, i, p + 1, 1)
     ELSE updateLinksFrom(replaceMatches(c, i, comparePage, linkMatches),
                          i, p, j + 1)

updateLinks(c, t) == popTask(updateLinksFrom(c, t.file, 1, 1), Tail(c.tasks))
----------------------------------------------------------------------------
(* createIndexFile *)

getIndexTopDirectory(fileInfo) ==
  IF Len(fileInfo.dirs) > 1 THEN fileInfo.dirs[2] ELSE NameUncategorized

\* JournalEntryPage.link of the page of vault file i, '' when it has none
pageLinkOf(c, i) ==
  IF c.jp[i] = NoPage THEN <<>>
  ELSE <<getLink(c.store, Vault[i], c.jp[i], Null, Null)>>

indexContent(c) ==
  LET tops == [k \in 1..Len(mdFiles) |-> getIndexTopDirectory(Vault[mdFiles[k]])]
      names == {tops[k] : k \in 1..Len(tops)}
      directories == SortBy(Distinct(tops), [d \in names |-> d], "lex")
      section(d) ==
        LET inDir == SelectSeq(mdFiles, LAMBDA i :
                       getIndexTopDirectory(Vault[i]) = d)
        IN <<Text(d)>>
           \o Concat([k \in 1..Len(inDir) |-> pageLinkOf(c, inDir[k])])
  IN Concat([k \in 1..Len(directories) |-> section(directories[k])])

\* the page of a new Index entry; c.ret is the entry
createIndexPage(c, content) ==
  IF c.failed THEN c
  ELSE createJournalPage(c, NameIndex, content, c.ret, Null)

createIndexFile(c, t) ==
  popTask(IF FirstIndex(c.store.journals, LAMBDA j :
               j.name = NameIndex /\ j.folder = t.pf) # 0
          \* update({ text }) on the journal entry itself: no page is written
          THEN Await(c)
          ELSE createIndexPage(createJournal(c, NameIndex, t.pf,
                                             Settings.playerObserve, Null),
                               indexContent(c)),
          Tail(c.tasks))

----------------------------------------------------------------------------
(* createBacklinks *)

\* a request that was issued and has not settled
Op(tag, kind, page, body, format) ==
  [tag |-> tag, kind |-> kind, page |-> page, body |-> body,
   format |-> format]

\* journalPage?.pages?.contents[0].  The item's journalPage is a page, and a
\* page carries no collection of pages: the expression is undefined
\* ("absent").  Where the host answers it the way a journal entry does, it is
\* the first page of the entry that holds the item's page ("entry").
firstPageOf(c, i) ==
  IF cfg.pagesView = "entry" /\ c.jp[i] # NoPage
  THEN PageRef(c.jp[i].j, JournalOf(c.store, c.jp[i].j).pages[1].id)
  ELSE NoPage

linkOf(c, i) == getLink(c.store, Vault[i], c.jp[i], c.up[i], Null)

backlinkFilesOf(c, i) ==
  SelectSeq(mdFiles, LAMBDA j :
    /\ j # i
    /\ firstPageOf(c, j) # NoPage
    /\ linkOf(c, i) # NoLink
    /\ Includes(BodyOf(c.store, firstPageOf(c, j)), linkOf(c, i)))

backLinkList(c, backlinkFiles) ==
  LET sorted == SortBy(backlinkFiles,
                       [j \in 1..Len(Vault) |-> Vault[j].base], "locale")
      entry(k) == (IF k > 1 THEN <<TextCRLF>> ELSE <<>>)
                  \o <<TextDash>>
                  \o (IF linkOf(c, sorted[k]) = NoLink THEN <<>>
                      ELSE <<linkOf(c, sorted[k])>>)
  IN Concat([k \in 1..Len(sorted) |-> entry(k)])

newTextOf(c, i) ==
  BodyOf(c.store, firstPageOf(c, i))
  \o <<TextCRLF, TextReferences, TextCRLF>>
  \o backLinkList(c, backlinkFilesOf(c, i))

\* the updates createBacklinks issues, none of which it waits for
backlinkUpdates(c) ==
  {Op("backlink", "body", firstPageOf(c, i), newTextOf(c, i), "keep") :
     i \in {j \in {mdFiles[k] : k \in 1..Len(mdFiles)} :
              c.jp[j] # NoPage /\ backlinkFilesOf(c, j) # <<>>}}

createBacklinks(c, t) ==
  [c EXCEPT !.inflight = @ \cup backlinkUpdates(c), !.tasks = Tail(c.tasks)]

----------------------------------------------------------------------------
(* ConvertAllToHTML, ConvertToHTML *)

convertRequests(c) ==
  UNION {{Op("convert", "body", c.pages[k], <<>>, "html"),
          Op("convert", "flag", c.pages[k], <<>>, "tinymce")} :
           k \in 1..Len(c.pages)}

ConvertAllToHTML(c, t) ==
  [c EXCEPT !.inflight = @ \cup convertRequests(c), !.tasks = Tail(c.tasks)]

\* the effect on the store of a request that resolves
Landed(st, op) ==
  IF op.kind = "flag" THEN WithPageSheet(st, op.page, op.format)
  ELSE WithPage(st, op.page, op.body,
                IF op.format = "keep" THEN PageOf(st, op.page).format
                ELSE op.format)

\* the completion message
complete(c, t) ==
  [c EXCEPT !.notices.complete = @ + 1, !.tasks = Tail(c.tasks)]

\* errorHandling(e), reached from the catch of importVault
errorHandling(c) ==
  [c EXCEPT !.notices.error = @ + 1, !.tasks = <<>>, !.failed = FALSE]
----------------------------------------------------------------------------
(* The inputs of a run: vaults and settings *)

MaxFiles == 3
MaxRuns == 2
MaxFailures == 1
MaxAwaits == 6
MaxExtras == 2

\* v/n.md refers to m twice with the same text and embeds the image with a
\* size; v/a/m.md refers to n; v/a/b/k.md refers to m by its file name in
\* upper case and to n with an alias; v/a/l.md, next to m, refers to m and
\* embeds the image with a width;
\* v/a/i.png is the image
FileN ==
  File(<<NameV>>, NameN, ExtMd, {"public: true"},
       <<Text(TextSee), Ref(NameM, Null), Ref(NameM, Null),
         Embed(NameI \o ChDot \o ExtPng, Size300x200)>>)
FileM == File(<<NameV, NameA>>, NameM, ExtMd, {}, <<Ref(NameN, Null)>>)
FileK ==
  File(<<NameV, NameA, NameB>>, NameK, ExtMd, {},
       <<Ref(NameUpperM \o ChDot \o ExtMd, Null), Ref(NameN, TextSee)>>)
FileL ==
  File(<<NameV, NameA>>, NameL, ExtMd, {},
       <<Ref(NameM, Null), Embed(NameI \o ChDot \o ExtPng, Size300)>>)
FileI == File(<<NameV, NameA>>, NameI, ExtPng, {}, <<>>)

FileUniverse == <<FileN, FileM, FileK, FileL, FileI>>

Reverse(seq) == [k \in 1..Len(seq) |-> seq[Len(seq) + 1 - k]]

\* the files of the universe picked by a set of indices, in universe order
Pick(indices) ==
  LET chosen == SelectSeq([k \in 1..Len(FileUniverse) |-> k],
                          LAMBDA k : k \in indices)
  IN [k \in 1..Len(chosen) |-> FileUniverse[chosen[k]]]

Vaults ==
  LET picks == {Pick(s) : s \in {t \in SUBSET (1..Len(FileUniverse)) :
                                   t # {} /\ Cardinality(t) <= MaxFiles}}
  IN picks \cup {Reverse(v) : v \in picks}

CoreFlags == {"combineNotes", "combineNotesNoSubfolders", "overwrite",
              "ignoreDuplicate"}
ExtraFlags == {"createBacklinks", "createIndexFile", "useTinyMCE",
               "importNonMarkdown", "skipDuplicateImages", "playerObserve",
               "useS3"}

SettingsOf(on, rootFolderName) ==
  [rootFolderName |-> rootFolderName,
   importNonMarkdown |-> "importNonMarkdown" \in on,
   useS3 |-> "useS3" \in on,
   s3Bucket |-> IF "s3Bucket" \in on THEN NameB ELSE Null,
   s3Region |-> IF "s3Region" \in on THEN NameR ELSE Null,
   mediaFolder |-> MediaFolder,
   skipDuplicateImages |-> "skipDuplicateImages" \in on,
   combineNotes |-> "combineNotes" \in on,
   combineNotesNoSubfolders |-> "combineNotesNoSubfolders" \in on,
   overwrite |-> "overwrite" \in on,
   ignoreDuplicate |-> "ignoreDuplicate" \in on,
   playerObserve |-> "playerObserve" \in on,
   createIndexFile |-> "createIndexFile" \in on,
   createBacklinks |-> "createBacklinks" \in on,
   useTinyMCE |-> "useTinyMCE" \in on]

Config(vault, on, rootFolderName, pagesView, budget) ==
  [vault |-> vault, s |-> SettingsOf(on, rootFolderName),
   pagesView |-> pagesView, budget |-> budget]

PagesViews(on) ==
  IF "createBacklinks" \in on THEN {"absent", "entry"} ELSE {"absent"}

\* every combination of the four flags that decide what is created, for
\* every vault
CoreConfigs ==
  {Config(v, on, NameR, "absent", 0) : v \in Vaults, on \in SUBSET CoreFlags}

\* up to MaxExtras of the other settings, with and without combining and
\* overwriting
ExtraConfigs ==
  UNION {UNION {{Config(v, core \cup extra, NameR, view, 0) :
                   v \in {w \in Vaults : Len(w) >= 2 \/ w = <<FileN>>},
                   view \in PagesViews(extra)} :
                  extra \in {e \in SUBSET ExtraFlags :
                               e # {} /\ Cardinality(e) <= MaxExtras}} :
           core \in SUBSET {"combineNotes", "overwrite"}}

\* no root container, and a root container named like a folder of the vault
RootConfigs ==
  {Config(v, on, root, "absent", 0) :
     v \in Vaults, on \in SUBSET {"combineNotes"}, root \in {Null, NameA}}

\* runs in which up to MaxFailures collaborator calls reject
FaultyConfigs ==
  UNION {{Config(v, on, NameR, view, MaxFailures) : view \in PagesViews(on)} :
           v \in {<<FileN>>, <<FileN, FileM>>},
           on \in {{}, {"combineNotes"}, {"createBacklinks"},
                   {"createIndexFile"}, {"useTinyMCE"},
                   {"importNonMarkdown"}}}

\* remote storage for the assets, with and without a bucket and a region
S3Configs ==
  {Config(<<FileN, FileI>>,
          {"importNonMarkdown", "useS3"} \cup s3 \cup other, NameR,
          "absent", 0) :
     s3 \in SUBSET {"s3Bucket", "s3Region"},
     other \in {{}, {"skipDuplicateImages"}, {"combineNotes"},
                {"createIndexFile"}}}

Configs ==
  CoreConfigs \cup ExtraConfigs \cup RootConfigs \cup FaultyConfigs
  \cup S3Configs
----------------------------------------------------------------------------
(* The state before the first import *)

NoNotices == [begin |-> 0, error |-> 0, complete |-> 0, rejected |-> 0]
NoStats == [totalImages |-> 0, skippedImages |-> 0]
NoHistory ==
  [prev |-> EmptyStore, clean |-> TRUE, aborted |-> FALSE,
   resolved |-> EmptyStore]

\* the tree builder before a call
TreeIdle == [pc |-> "idle", list |-> <<>>, root |-> EmptyNode]

\* nothing is running and nothing was imported
ImportIdle ==
  /\ store = EmptyStore
  /\ run = 0
  /\ tasks = <<>>
  /\ jp = <<>>
  /\ up = <<>>
  /\ existing = {}
  /\ pages = <<>>
  /\ inflight = {}
  /\ notices = NoNotices
  /\ stats = NoStats
  /\ failures = 0
  /\ hist = NoHistory

----------------------------------------------------------------------------
(* The identity generator as a state machine: a call draws its inputs,     *)
(* computes the three hashes, then renders the identifier.                 *)

UuidIdle == [pc |-> "idle", ns |-> <<>>, path |-> <<>>,
             h1 |-> Num(FALSE, U32Zero), h2 |-> Num(FALSE, U32Zero),
             h3 |-> Num(FALSE, U32Zero), id |-> <<>>]

\* no import is configured while the generator is exercised
UuidInit ==
  /\ uq = UuidIdle
  /\ tq = TreeIdle
  /\ cfg = Config(<<>>, {}, Null, "absent", 0)
  /\ ImportIdle

UuidCall ==
  /\ uq.pc = "idle"
  /\ \E ns \in Namespaces, path \in UuidPaths :
       uq' = [uq EXCEPT !.pc = "hashed", !.ns = ns, !.path = path,
                        !.h1 = hashString(ns \o ChColon \o path),
                        !.h2 = hashString(ns \o ChColon \o path \o Salt1),
                        !.h3 = hashString(ns \o ChColon \o path \o Salt2)]
  /\ UNCHANGED <<tq, importVars>>

UuidRender ==
  /\ uq.pc = "hashed"
  /\ uq' = [uq EXCEPT !.pc = "done",
                      !.id = generateDeterministicUUID(uq.path, uq.ns)]
  /\ UNCHANGED <<tq, importVars>>

UuidReturn ==
  /\ uq.pc = "done"
  /\ uq' = UuidIdle
  /\ UNCHANGED <<tq, importVars>>

UuidNext == UuidCall \/ UuidRender \/ UuidReturn

SpecUuid == UuidInit /\ [][UuidNext]_vars

----------------------------------------------------------------------------
(* The import as a state machine *)

Init ==
  /\ uq = UuidIdle
  /\ tq = TreeIdle
  /\ cfg \in Configs
  /\ ImportIdle

\* the number of awaited calls of a step that resolve before one rejects
Fuels ==
  IF failures < cfg.budget THEN {NoFail} \cup (0..(MaxAwaits - 1))
  ELSE {NoFail}

\* a step ends: by returning, or by throwing into the catch of importVault
Commit(r) ==
  LET f == IF r.failed THEN errorHandling(r) ELSE r
  IN /\ store' = f.store
     /\ tasks' = f.tasks
     /\ jp' = f.jp
     /\ up' = f.up
     /\ existing' = f.existing
     /\ pages' = f.pages
     /\ inflight' = f.inflight
     /\ notices' = [f.notices EXCEPT
                      !.rejected = IF r.failed /\ r.hit THEN @ + 1 ELSE @]
     /\ stats' = f.stats
     /\ failures' = IF r.hit THEN failures + 1 ELSE failures
     /\ UNCHANGED <<uq, tq, cfg>>

\* the record of a run that is about to begin on store st
FreshMachine(st) ==
  [store |-> st, tasks |-> <<>>,
   jp |-> [i \in 1..Len(Vault) |-> NoPage],
   up |-> [i \in 1..Len(Vault) |-> Null],
   existing |-> {}, pages |-> <<>>, inflight |-> inflight,
   notices |-> [NoNotices EXCEPT !.begin = 1], stats |-> NoStats,
   fuel |-> NoFail, failed |-> FALSE, hit |-> FALSE, ret |-> Null]

Running(k) == tasks # <<>> /\ Head(tasks).k = k

\* importVault is called: 'Begin import...', then everything up to the
\* first importFolder call
StartImport ==
  /\ tasks = <<>>
  /\ inflight = {}
  /\ run < MaxRuns
  /\ \E fuel \in Fuels :
       Commit(beginImport([FreshMachine(store) EXCEPT !.fuel = fuel]))
  /\ run' = run + 1
  /\ hist' = [prev |-> store,
              clean |-> /\ hist.clean
                        /\ run > 0 => /\ notices.complete = 1
                                      /\ notices.error = 0
                                      /\ notices.rejected = 0,
              aborted |-> hist.aborted \/ (run > 0 /\ notices.error > 0),
              resolved |-> hist.resolved]

ImportFolderStep ==
  /\ Running("folder")
  /\ \E fuel \in Fuels :
       Commit(importFolder([Machine EXCEPT !.fuel = fuel], Head(tasks)))
  /\ UNCHANGED <<run, hist>>

ImportFileStep ==
  /\ Running("file")
  /\ \E fuel \in Fuels :
       Commit(importFile([Machine EXCEPT !.fuel = fuel], Head(tasks)))
  /\ UNCHANGED <<run, hist>>

GatherFilesStep ==
  /\ Running("gather")
  /\ Commit(gatherFiles(Machine, Head(tasks)))
  /\ UNCHANGED <<run, hist>>

UpdateLinksStep ==
  /\ Running("links")
  /\ \E fuel \in Fuels :
       Commit(updateLinks([Machine EXCEPT !.fuel = fuel], Head(tasks)))
  /\ UNCHANGED <<run, hist>>

CreateIndexFileStep ==
  /\ Running("index")
  /\ \E fuel \in Fuels :
       Commit(createIndexFile([Machine EXCEPT !.fuel = fuel], Head(tasks)))
  /\ UNCHANGED <<run, hist>>

CreateBacklinksStep ==
  /\ Running("backlinks")
  /\ Commit(createBacklinks(Machine, Head(tasks)))
  /\ hist' = [hist EXCEPT !.resolved = store]
  /\ UNCHANGED run

ConvertAllToHTMLStep ==
  /\ Running("convert")
  /\ Commit(ConvertAllToHTML(Machine, Head(tasks)))
  /\ UNCHANGED <<run, hist>>

\* await Promise.all(promises) returns: every conversion request resolved
ConvertJoinStep ==
  /\ Running("join")
  /\ \A op \in inflight : op.tag # "convert"
  /\ Commit([Machine EXCEPT !.tasks = Tail(tasks)])
  /\ UNCHANGED <<run, hist>>

CompleteStep ==
  /\ Running("complete")
  /\ Commit(complete(Machine, Head(tasks)))
  /\ UNCHANGED <<run, hist>>

\* a request in flight resolves
Land ==
  \E op \in inflight :
    /\ store' = Landed(store, op)
    /\ inflight' = inflight \ {op}
    /\ UNCHANGED <<uq, tq, cfg, run, tasks, jp, up, existing, pages, notices,
                   stats, failures, hist>>

\* a request in flight rejects.  A conversion request is awaited through
\* Promise.all, so its rejection is thrown in importVault; nothing awaits a
\* backlink update, so its rejection reaches no handler of the import
Reject ==
  \E op \in inflight :
    /\ failures < cfg.budget
    /\ failures' = failures + 1
    /\ inflight' = inflight \ {op}
    /\ IF op.tag = "convert" /\ Running("join")
       THEN /\ tasks' = <<>>
            /\ notices' = [notices EXCEPT !.error = @ + 1, !.rejected = @ + 1]
       ELSE /\ tasks' = tasks
            /\ notices' = [notices EXCEPT !.rejected = @ + 1]
    /\ UNCHANGED <<uq, tq, cfg, store, run, jp, up, existing, pages, stats,
                   hist>>

Next ==
  \/ StartImport
  \/ ImportFolderStep
  \/ ImportFileStep
  \/ GatherFilesStep
  \/ UpdateLinksStep
  \/ CreateIndexFileStep
  \/ CreateBacklinksStep
  \/ ConvertAllToHTMLStep
  \/ ConvertJoinStep
  \/ CompleteStep
  \/ Land
  \/ Reject

Spec == Init /\ [][Next]_vars
----------------------------------------------------------------------------
(* createFolderStructure as a state machine: a call draws its file list,   *)
(* then builds the tree.                                                   *)

MaxTreeFiles == 3

TreeFile(dirs, base, ext) == File(dirs, base, ext, {}, <<>>)

\* notes in the vault root, in a folder, in a folder of a folder and in a
\* top-level folder named like a nested one; a note in a hidden folder, a
\* hidden note, a canvas alone in its folder, and an image
TreeFiles ==
  { TreeFile(<<NameV>>, NameN, ExtMd),
    TreeFile(<<NameV, NameA>>, NameM, ExtMd),
    TreeFile(<<NameV, NameA, NameB>>, NameK, ExtMd),
    TreeFile(<<NameV, NameB>>, NameL, ExtMd),
    TreeFile(<<NameV, ChDot \o NameA>>, NameM, ExtMd),
    TreeFile(<<NameV, NameA>>, ChDot \o NameN, ExtMd),
    TreeFile(<<NameV, NameR>>, NameK, ExtCanvas),
    TreeFile(<<NameV, NameA>>, NameI, ExtPng) }

\* the file lists of up to MaxTreeFiles files, in every order, a file
\* possibly more than once
TreeLists == UNION {[1..n -> TreeFiles] : n \in 0..MaxTreeFiles}

TreeInit ==
  /\ uq = UuidIdle
  /\ tq = TreeIdle
  /\ cfg = Config(<<>>, {}, Null, "absent", 0)
  /\ ImportIdle

TreeCall ==
  /\ tq.pc = "idle"
  /\ \E fileList \in TreeLists :
       tq' = [pc |-> "called", list |-> fileList, root |-> EmptyNode]
  /\ UNCHANGED <<uq, importVars>>

TreeBuild ==
  /\ tq.pc = "called"
  /\ tq' = [tq EXCEPT !.pc = "done", !.root = createFolderStructure(tq.list)]
  /\ UNCHANGED <<uq, importVars>>

TreeReturn ==
  /\ tq.pc = "done"
  /\ tq' = TreeIdle
  /\ UNCHANGED <<uq, importVars>>

TreeNext == TreeCall \/ TreeBuild \/ TreeReturn

SpecTree == TreeInit /\ [][TreeNext]_vars

----------------------------------------------------------------------------
(* C3 *)

IsAlnumChar(c) == c \in 48..57 \/ c \in 97..122

TwoPow31 == U32(32768, 0)

\* C3: every identifier returned by generateDeterministicUUID has exactly
\* 16 characters, each of them a digit or a lower-case letter.
C3_SixteenAlnum ==
  uq.pc = "done" =>
    /\ Len(uq.id) = 16
    /\ \A i \in 1..Len(uq.id) : IsAlnumChar(uq.id[i])

\* an identifier was rendered from a first hash whose int32 state was the
\* minimum negative integer
C3_Witness ==
  /\ uq.pc = "done"
  /\ uq.h1.mag = TwoPow31
  /\ Len(ToString36(uq.h2)) > 5


\* C4: for a fixed path, the identities of two different namespaces among
\* folder, journal and page differ.
C4_NamespacesDiffer ==
  uq.pc = "done" =>
    \A other \in Namespaces \ {uq.ns} :
      generateDeterministicUUID(uq.path, other) # uq.id

\* an identity was generated for a path of the greatest length
C4_Witness ==
  /\ uq.pc = "done"
  /\ Len(uq.path) = MaxPathLen
  /\ uq.ns = NsJournal
  /\ generateDeterministicUUID(uq.path, NsPage) # uq.id

----------------------------------------------------------------------------
(* Two runs of importVault in succession *)

RECURSIVE PageCount(_)
PageCount(journals) ==
  IF journals = <<>> THEN 0
  ELSE Len(Head(journals).pages) + PageCount(Tail(journals))

CountsOf(st) ==
  [folders |-> Len(st.folders), journals |-> Len(st.journals),
   pages |-> PageCount(st.journals)]

\* the second run has completed, no call of either run rejected, and every
\* request has settled
SecondRunDone ==
  /\ run = 2
  /\ notices.complete = 1
  /\ notices.rejected = 0
  /\ hist.clean
  /\ inflight = {}

\* C1: running importVault twice in succession on the same vault with the
\* same settings creates no duplicates: the numbers of containers, journal
\* documents and pages after the second run are those after the first run.
C1_NoDuplicates == SecondRunDone => CountsOf(store) = CountsOf(hist.prev)

\* the page of the store that has the identifiers of a page of an earlier
\* store, if it is still there
SamePageNow(journal, page) ==
  /\ JournalExists(store, journal.id)
  /\ PageIndexById(JournalOf(store, journal.id), page.id) # 0
  /\ BodyOf(store, PageRef(journal.id, page.id)) = page.body

\* C2: when overwrite is not set, a second run on the same vault with the
\* same settings leaves the body of every page the first run produced as
\* the first run left it.
C2_BodiesKept ==
  (SecondRunDone /\ ~cfg.s.overwrite) =>
    \A jx \in 1..Len(hist.prev.journals) :
      \A px \in 1..Len(hist.prev.journals[jx].pages) :
        SamePageNow(hist.prev.journals[jx], hist.prev.journals[jx].pages[px])

----------------------------------------------------------------------------
(* Stages and requests in flight *)

BodyUpdatesOf(page) == {op \in inflight : op.kind = "body" /\ op.page = page}

\* C5: each stage of importVault completes before the next begins: while an
\* update issued by backlink generation is in flight no conversion request
\* has been issued and the completion notice has not been given, and no two
\* body updates of one page are in flight at the same time.
C5_StagesInOrder ==
  /\ \A op \in inflight :
       op.tag = "backlink" =>
         /\ notices.complete = 0
         /\ \A other \in inflight : other.tag # "convert"
  /\ \A op \in inflight : Cardinality(BodyUpdatesOf(op.page)) <= 1

\* C6: when a store or storage call of a run rejects, the rest of the
\* pipeline is aborted, exactly one failure notice is given and no
\* completion notice is given for that run.
C6_FailureSurfacesOnce ==
  notices.rejected > 0 =>
    /\ tasks = <<>>
    /\ notices.error = 1
    /\ notices.complete = 0

----------------------------------------------------------------------------
(* Recovery by running again *)

\* one step of a run in which no call rejects
StepOf(m) ==
  LET t == Head(m.tasks)
  IN CASE t.k = "folder" -> importFolder(m, t)
       [] t.k = "file" -> importFile(m, t)
       [] t.k = "gather" -> gatherFiles(m, t)
       [] t.k = "links" -> updateLinks(m, t)
       [] t.k = "index" -> createIndexFile(m, t)
       [] t.k = "backlinks" -> createBacklinks(m, t)
       [] t.k = "convert" -> ConvertAllToHTML(m, t)
       [] t.k = "join" -> [m EXCEPT !.tasks = Tail(m.tasks)]
       [] OTHER -> complete(m, t)

RECURSIVE RunToEnd(_)
RunToEnd(m) ==
  IF m.tasks = <<>> \/ m.failed THEN m ELSE RunToEnd(StepOf(m))

\* one uninterrupted run on the initial store
Uninterrupted ==
  RunToEnd(beginImport([FreshMachine(EmptyStore) EXCEPT !.inflight = {}]))

FolderKeys(st) ==
  [k \in 1..Len(st.folders) |->
     <<st.folders[k].id, st.folders[k].name, st.folders[k].parent>>]

JournalKeys(st) ==
  [k \in 1..Len(st.journals) |->
     <<st.journals[k].name, st.journals[k].folder>>]

PageKeys(st) ==
  Concat([k \in 1..Len(st.journals) |->
            [p \in 1..Len(st.journals[k].pages) |->
               <<st.journals[k].name, st.journals[k].folder,
                 st.journals[k].pages[p].name>>]])

Occurrences(seq, x) == Cardinality({k \in 1..Len(seq) : seq[k] = x})

SameBag(s, t) ==
  \A x \in {s[k] : k \in 1..Len(s)} \cup {t[k] : k \in 1..Len(t)} :
    Occurrences(s, x) = Occurrences(t, x)

SameDocuments(st, other) ==
  /\ SameBag(FolderKeys(st), FolderKeys(other))
  /\ SameBag(JournalKeys(st), JournalKeys(other))
  /\ SameBag(PageKeys(st), PageKeys(other))

\* C7: after a run that a rejecting call aborted, running the whole import
\* again completes with the containers, journal documents and pages of one
\* uninterrupted run on the initial store: none duplicated, none missing.
C7_RerunRecovers ==
  (hist.aborted /\ notices.complete = 1 /\ notices.rejected = 0
     /\ inflight = {}) =>
    SameDocuments(store, Uninterrupted.store)

----------------------------------------------------------------------------
(* Link resolution *)

\* updateLinks ran for vault file i and returned
LinksResolvedFor(i) ==
  /\ Running("links")
  /\ Head(tasks).file = i
  /\ tasks' = Tail(tasks)

Resolvable(i) == getLink(store, Vault[i], jp[i], up[i], Null) # NoLink

\* the references of a body to vault file i
ReferencesTo(body, i) ==
  matchAll(body, getLinkRegex(Vault[i])[1])
  \o matchAll(body, getLinkRegex(Vault[i])[2])

\* the markup a reference to vault file i resolves to
ResolvedMarkup(i, reference) ==
  LET link == getLink(store, Vault[i], jp[i], up[i], reference.alias)
  IN IF ~IsMarkdown(Vault[i]) /\ reference.alias # Null
        /\ IsSize(reference.alias)
     THEN [link EXCEPT !.dim = Dimensions(reference.alias)] ELSE link

\* C8: link resolution for an item that has no resolvable link changes no
\* page body and issues no update: the store is as it was, and the step
\* cannot be made to fail.
C8_UnresolvedLeftAlone ==
  [][\A i \in 1..Len(Vault) :
       (Running("links") /\ Head(tasks).file = i /\ ~Resolvable(i)
          /\ tasks' # tasks)
         => (store' = store /\ tasks' = Tail(tasks))]_vars

\* a run has completed and a page still holds, as written, an embed of an
\* asset that was not uploaded
C8_Witness ==
  /\ notices.complete = 1
  /\ \E i \in 1..Len(Vault) :
       /\ ~IsMarkdown(Vault[i])
       /\ up[i] = Null
       /\ \E p \in 1..Len(pages) :
            ReferencesTo(BodyOf(store, pages[p]), i) # <<>>

\* C9: after link resolution for an item that has a resolvable link, no
\* page body holds a reference to the item as written, and for every
\* reference a body held the body holds the resolved markup.
C9_ReferencesResolved ==
  [][\A i \in 1..Len(Vault) :
       (LinksResolvedFor(i) /\ Resolvable(i)) =>
         \A p \in 1..Len(pages) :
           /\ ReferencesTo(BodyOf(store', pages[p]), i) = <<>>
           /\ \A k \in 1..Len(ReferencesTo(BodyOf(store, pages[p]), i)) :
                Includes(BodyOf(store', pages[p]),
                         ResolvedMarkup(i, ReferencesTo(BodyOf(store, pages[p]),
                                                        i)[k]))]_vars

\* a run has completed in which one page referred to an item twice with the
\* same text and another page referred to it too: the first holds the
\* item's link twice and the second holds a link to the same page
C9_Witness ==
  /\ notices.complete = 1
  /\ ~cfg.s.createBacklinks
  /\ \E p, q \in 1..Len(pages) :
       /\ p # q
       /\ \E a, b \in 1..Len(BodyOf(store, pages[p])) :
            /\ a < b
            /\ BodyOf(store, pages[p])[a].t = "link"
            /\ BodyOf(store, pages[p])[a] = BodyOf(store, pages[p])[b]
            /\ \E d \in 1..Len(BodyOf(store, pages[q])) :
                 /\ BodyOf(store, pages[q])[d].t = "link"
                 /\ BodyOf(store, pages[q])[d].x = BodyOf(store, pages[p])[a].x

----------------------------------------------------------------------------
(* Backlinks *)

\* the markdown items other than i whose page, as it stood when
\* createBacklinks was called, holds the link text of item i
LinkersOf(i) ==
  {j \in 1..Len(Vault) :
     /\ j # i
     /\ IsMarkdown(Vault[j])
     /\ jp[j] # NoPage
     /\ Includes(BodyOf(hist.resolved, jp[j]),
                 getLink(hist.resolved, Vault[i], jp[i], up[i], Null))}

\* what createBacklinks appended to the page of item i
AppendedTo(i) ==
  SubSeq(BodyOf(store, jp[i]), Len(BodyOf(hist.resolved, jp[i])) + 1,
         Len(BodyOf(store, jp[i])))

LinksIn(body) == SelectSeq(body, LAMBDA tok : tok.t = "link")

\* C10: after createBacklinks the page of each markdown item holds what it
\* held after link resolution, followed by a References section with exactly
\* one entry for each other markdown item whose page holds the item's link
\* text, and by nothing when there is no such item.
C10_ReferencesSection ==
  (/\ cfg.s.createBacklinks
   /\ ~cfg.s.useTinyMCE
   /\ notices.complete = 1
   /\ notices.rejected = 0
   /\ inflight = {}) =>
    \A i \in 1..Len(Vault) :
      (IsMarkdown(Vault[i]) /\ jp[i] # NoPage) =>
        /\ Len(BodyOf(store, jp[i])) >= Len(BodyOf(hist.resolved, jp[i]))
        /\ SubSeq(BodyOf(store, jp[i]), 1, Len(BodyOf(hist.resolved, jp[i])))
             = BodyOf(hist.resolved, jp[i])
        /\ IF LinkersOf(i) = {} THEN AppendedTo(i) = <<>>
           ELSE /\ Len(AppendedTo(i)) >= 3
                /\ SubSeq(AppendedTo(i), 1, 3)
                     = <<TextCRLF, TextReferences, TextCRLF>>
                /\ Len(LinksIn(AppendedTo(i))) = Cardinality(LinkersOf(i))
                /\ \A j \in LinkersOf(i) :
                     Occurrences(LinksIn(AppendedTo(i)),
                                 getLink(hist.resolved, Vault[j], jp[j],
                                         up[j], Null)) = 1
----------------------------------------------------------------------------
(* Assets *)

\* importFile runs for vault file i, an asset, and ends
AssetStep(i) ==
  /\ Running("file")
  /\ Head(tasks).file = i
  /\ ~IsMarkdown(Vault[i])
  /\ tasks' # tasks

\* C11: with non-markdown import and duplicate-skip enabled, the import of
\* an asset whose file name the pre-scan found uploads nothing, sets the
\* item's upload path to the pre-scanned path and counts the asset as
\* skipped; the import of an asset whose name the pre-scan did not find
\* uploads it exactly once (or the upload rejects and nothing is uploaded).
C11_SkipsPrescanned ==
  [][\A i \in 1..Len(Vault) :
       (AssetStep(i) /\ cfg.s.importNonMarkdown /\ cfg.s.skipDuplicateImages)
         => IF fileName(Vault[i]) \in existing
            THEN /\ store'.uploads = store.uploads
                 /\ up'[i] = MediaPath(fileName(Vault[i]))
                 /\ stats' = [totalImages |-> stats.totalImages + 1,
                              skippedImages |-> stats.skippedImages + 1]
                 /\ tasks' = Tail(tasks)
            ELSE \/ /\ tasks' = Tail(tasks)
                    /\ store'.uploads
                         = Append(store.uploads, fileName(Vault[i]))
                    /\ up'[i] = MediaPath(fileName(Vault[i]))
                    /\ stats' = [totalImages |-> stats.totalImages + 1,
                                 skippedImages |-> stats.skippedImages]
                 \/ /\ notices'.error = notices.error + 1
                    /\ store'.uploads = store.uploads]_vars

\* the second run has completed: the first uploaded the image, the second
\* found it in the pre-scan and skipped it
C11_Witness ==
  /\ SecondRunDone
  /\ cfg.s.importNonMarkdown
  /\ cfg.s.skipDuplicateImages
  /\ stats.skippedImages = 1
  /\ Len(store.uploads) = 1

----------------------------------------------------------------------------
(* The folder tree *)

\* the folders below a folder, at any depth
RECURSIVE Subfolders(_)
Subfolders(node) ==
  UNION {{node.childFolders[k]} \cup Subfolders(node.childFolders[k]) :
           k \in 1..Len(node.childFolders)}

\* the folder reached from a folder by a sequence of names, as a sequence
\* of one folder; empty when a name is missing or is not unique
RECURSIVE FolderAt(_, _)
FolderAt(node, names) ==
  IF names = <<>> THEN <<node>>
  ELSE LET named == SelectSeq(node.childFolders,
                              LAMBDA f : f.name = names[1])
       IN IF Len(named) # 1 THEN <<>> ELSE FolderAt(named[1], Tail(names))

Skipped(f) == isHidden(f) \/ isCanvas(f)

\* where in the input list a folder was first needed
FirstSeen(node) ==
  LET inside == {getFilesRecursive(node)[k] :
                   k \in 1..Len(getFilesRecursive(node))}
  IN CHOOSE i \in inside : \A j \in inside : i <= j

Increasing(seq) == \A a, b \in 1..Len(seq) : a < b => seq[a] < seq[b]

\* C12: createFolderStructure builds exactly the tree of the files that
\* are neither hidden nor canvas files: no skipped file is in the tree and
\* every folder holds a file somewhere below it; every other file is in the
\* tree exactly once, in the folder its directories after the first lead
\* to; sibling folders have different names; files and child folders are
\* in the order in which the input list first meets them.
C12_TreeOfKeptFiles ==
  tq.pc = "done" =>
    /\ \A i \in 1..Len(tq.list) :
         IF Skipped(tq.list[i])
         THEN Occurrences(getFilesRecursive(tq.root), i) = 0
         ELSE /\ Occurrences(getFilesRecursive(tq.root), i) = 1
              /\ LET at == FolderAt(tq.root, Tail(tq.list[i].dirs))
                 IN Len(at) = 1 /\ Occurrences(at[1].files, i) = 1
    /\ \A i \in 1..Len(getFilesRecursive(tq.root)) :
         getFilesRecursive(tq.root)[i] \in 1..Len(tq.list)
    /\ \A node \in Subfolders(tq.root) : getFilesRecursive(node) # <<>>
    /\ \A node \in {tq.root} \cup Subfolders(tq.root) :
         /\ \A a, b \in 1..Len(node.childFolders) :
              a # b => node.childFolders[a].name # node.childFolders[b].name
         /\ Increasing(node.files)
         /\ Increasing([k \in 1..Len(node.childFolders) |->
                          FirstSeen(node.childFolders[k])])

\* a tree was built from a list that holds a canvas file in a folder of its
\* own between two notes of one nested folder
C12_Witness ==
  /\ tq.pc = "done"
  /\ Len(tq.list) = 3
  /\ isCanvas(tq.list[2])
  /\ Len(tq.root.childFolders) = 1
  /\ Len(tq.root.childFolders[1].childFolders) = 1
  /\ tq.root.childFolders[1].childFolders[1].files = <<1, 3>>

----------------------------------------------------------------------------
(* The name of the vault's own directory *)

\* a file list with the first directory of every file renamed
Renamed(fileList, name) ==
  [k \in 1..Len(fileList) |-> [fileList[k] EXCEPT !.dirs[1] = name]]

\* other names the operator could have given the vault: an unused name and
\* the name of a folder of the vault
OtherRoots == {NameR, NameA}

\* importFolder is about to be called for the root of the tree
RootTask ==
  /\ Running("folder")
  /\ Head(tasks).node.name = Null
  /\ Head(tasks).cur = <<>>

\* the folder paths of a file below its first directory
DirPrefixes(f) ==
  {SubSeq(Tail(f.dirs), 1, n) : n \in 1..Len(Tail(f.dirs))}

FolderPathsOf(fileList) ==
  UNION {DirPrefixes(fileList[k]) : k \in 1..Len(fileList)}

\* the identities importFolder gives containers and combined entries of
\* a file list
ContainerIdsOf(fileList) ==
  {generateFolderUUID(p) : p \in FolderPathsOf(fileList)}
  \cup (IF cfg.s.rootFolderName = Null THEN {}
        ELSE {generateFolderUUID(<<cfg.s.rootFolderName>>)})

CombinedIdsOf(fileList) ==
  {generateJournalUUID(JoinSlash(p)) : p \in FolderPathsOf(fileList)}
  \cup {RandomId(n) : n \in 0..store.rnd}

\* a run has ended, by completing or by failing, and nothing is in flight
RunEnded == run > 0 /\ tasks = <<>> /\ inflight = {}

----------------------------------------------------------------------------
(* Configuration errors *)

InvalidS3 ==
  /\ cfg.s.useS3
  /\ (cfg.s.s3Bucket = Null \/ cfg.s.s3Region = Null)

\* the run failed and nothing was imported
FailedFast ==
  /\ tasks = <<>>
  /\ notices.error = 1
  /\ notices.complete = 0
  /\ store.folders = <<>>
  /\ store.journals = <<>>
  /\ store.uploads = <<>>

----------------------------------------------------------------------------
(* The order of the walk *)

\* the files of the vault in depth-first order, a folder's own files before
\* its child folders
RECURSIVE DepthFirst(_)
DepthFirst(node) ==
  node.files \o Concat([k \in 1..Len(node.childFolders) |->
                          DepthFirst(node.childFolders[k])])

WalkOrder == DepthFirst(createFolderStructure(Vault))

\* the import of vault file i has completed in this run (for a file whose
\* import leaves a trace on the item)
Imported(i) ==
  IF IsMarkdown(Vault[i]) THEN jp[i] # NoPage ELSE up[i] # Null

Traced(i) == IsMarkdown(Vault[i]) \/ cfg.s.importNonMarkdown

\* the files of the walk up to position n are imported and no later one is
ImportedUpTo(n) ==
  \A k \in 1..Len(WalkOrder) :
    Traced(WalkOrder[k]) => (Imported(WalkOrder[k]) <=> k <= n)

PositionOf(i) == CHOOSE k \in 1..Len(WalkOrder) : WalkOrder[k] = i

\* C15: importFolder imports the files of a folder in list order, one
\* after the other, all of them before any child folder, and walks the
\* child folders depth-first in order: when importFile is about to run for
\* a file, and when importFolder is about to run for a folder, exactly the
\* files that precede it in the depth-first order have been imported.
C15_WalkInOrder ==
  /\ Running("file") => ImportedUpTo(PositionOf(Head(tasks).file) - 1)
  /\ (Running("folder") /\ ~RootTask) =>
       ImportedUpTo(PositionOf(DepthFirst(Head(tasks).node)[1]) - 1)
  /\ RootTask => ImportedUpTo(0)

\* importFolder is about to run for a folder of a folder after a file of
\* the vault root and a file of the outer folder were imported
C15_Witness ==
  /\ Running("folder")
  /\ Len(Head(tasks).cur) = 1
  /\ Len(WalkOrder) = 3
  /\ ImportedUpTo(2)
  /\ Vault[1].dirs # <<NameV>>

----------------------------------------------------------------------------
(* The fields of an identity *)

\* a hash rendered in base 36, padded with zeros and cut to a fixed length
FixedField(num, length) == Substring0(toBase36(num, length), length)

\* C16: every identity is the concatenation of three fields of fixed
\* length: characters 1-6 render the first hash, characters 7-11 the second
\* and characters 12-16 the third, each padded with zeros and cut to its
\* length.
C16_ThreeFixedFields ==
  uq.pc = "done" =>
    uq.id = FixedField(uq.h1, 6) \o FixedField(uq.h2, 5)
            \o FixedField(uq.h3, 5)

----------------------------------------------------------------------------
(* Containers of folder levels *)

\* the two cases in which a folder level needs a container
NeedsOwnContainer(folder) ==
  \/ /\ ~combineFilesOf(folder)
     /\ folder.name # Null
     /\ \E k \in 1..Len(DepthFirst(folder)) :
          IsMarkdown(Vault[DepthFirst(folder)[k]])
  \/ /\ combineFilesOf(folder)
     /\ \E c \in 1..Len(folder.childFolders) :
          \E k \in 1..Len(DepthFirst(folder.childFolders[c])) :
            IsMarkdown(Vault[DepthFirst(folder.childFolders[c])[k]])

\* importFolder ran for the folder at the head of the queue and went on
\* to its loops
FolderStepDone ==
  /\ Running("folder")
  /\ Len(tasks') = Len(tasks) - 1 + Len(Head(tasks).node.files)
                   + Len(Head(tasks).node.childFolders)

\* the container importFolder hands to the imports of the folder's files
\* and child folders
PassedOn == Head(tasks').pf

\* C17: importFolder resolves or creates a container for a folder level
\* exactly in the two cases: then the files and child folders of the level
\* get a container of the folder's name that is in the store; in every
\* other case no container is created and they get the parent container.
C17_ContainerWhenNeeded ==
  [][FolderStepDone =>
       IF NeedsOwnContainer(Head(tasks).node)
       THEN /\ PassedOn # Null
            /\ FolderExists(store', PassedOn)
            /\ store'.folders[FolderIndex(store', PassedOn)].name
                 = Head(tasks).node.name
       ELSE /\ store'.folders = store.folders
            /\ PassedOn = Head(tasks).pf]_vars


\* the root container: the top-level container of the configured name
RootContainer ==
  getFolder(store, cfg.s.rootFolderName, Null)

\* container id is the container top or lies below it
RECURSIVE InsideOf(_, _, _)
InsideOf(id, top, depth) ==
  \/ id = top
  \/ /\ id # Null
     /\ depth > 0
     /\ FolderExists(store, id)
     /\ InsideOf(store.folders[FolderIndex(store, id)].parent, top, depth - 1)

\* C18: when the root container name is not empty, every container and
\* every journal entry lies inside the root container, and no file and no
\* folder of the vault is imported with no parent container.
C18_InsideRootContainer ==
  (run > 0 /\ cfg.s.rootFolderName # Null) =>
    /\ \A k \in 1..Len(store.folders) :
         InsideOf(store.folders[k].id, RootContainer, Len(store.folders))
    /\ \A k \in 1..Len(store.journals) :
         InsideOf(store.journals[k].folder, RootContainer, Len(store.folders))
    /\ \A k \in 1..Len(tasks) :
         tasks[k].k \in {"folder", "file"} => tasks[k].pf # Null


\* C19: within one run on an empty store, different folder levels get
\* different containers: the container importFolder resolves for a folder
\* of the vault is one that no earlier level of the run, and not the root
\* container, was given; it is new to the store.
C19_LevelsGetOwnContainers ==
  [][(/\ run = 1
      /\ FolderStepDone
      /\ Head(tasks).node.name # Null
      /\ NeedsOwnContainer(Head(tasks).node))
       => /\ PassedOn # Head(tasks).pf
          /\ ~FolderExists(store, PassedOn)]_vars

----------------------------------------------------------------------------
(* Ownership *)

\* importFile ran for vault file i, a note, and returned
NoteStepDone(i) ==
  /\ Running("file")
  /\ Head(tasks).file = i
  /\ IsMarkdown(Vault[i])
  /\ tasks' = Tail(tasks)

\* C20: after the import of a note that has no combining parent, the
\* default ownership of its journal entry is observer if the note is public
\* and none otherwise, whatever the playerObserve setting is; the import of
\* a note into a combining parent leaves the parent's ownership as it was.
C20_OwnershipFollowsNote ==
  [][\A i \in 1..Len(Vault) :
       NoteStepDone(i) =>
         IF Head(tasks).pj = Null
         THEN JournalOf(store', jp'[i].j).ownership
                = IF isPublicOf(Vault[i]) THEN "observer" ELSE "none"
         ELSE /\ jp'[i].j = Head(tasks).pj
              /\ JournalOf(store', Head(tasks).pj).ownership
                   = JournalOf(store, Head(tasks).pj).ownership]_vars

\* with playerObserve set, a run has completed that left the entry of a
\* public note with observer and the entry of another note with none
C20_Witness ==
  /\ notices.complete = 1
  /\ cfg.s.playerObserve
  /\ ~cfg.s.combineNotes
  /\ \E i, j \in 1..Len(jp) :
       /\ jp[i] # NoPage /\ jp[j] # NoPage
       /\ isPublicOf(Vault[i]) /\ ~isPublicOf(Vault[j])
       /\ JournalOf(store, jp[i].j).ownership = "observer"
       /\ JournalOf(store, jp[j].j).ownership = "none"

====
